---- MODULE Spec2Model ----
(***************************************************************************)
(* Model of the layout engine of vexes (include/vexes.hpp, class Layouts)  *)
(* and of the calls the panel demo makes on it.                            *)
(*                                                                         *)
(* A std::string is a sequence of one-character strings.  An int is a      *)
(* 32-bit two's complement integer; a float is an IEEE-754 binary32 value, *)
(* kept as sign, 24-bit significand and exponent, with round-to-nearest-   *)
(* even division and multiplication.                                       *)
(***************************************************************************)
EXTENDS Integers, Sequences, FiniteSets, TLC

----------------------------------------------------------------------------
(* Bounds of the model. *)

\* longest ratio string drawn character by character
MaxLen == 4
\* largest weight of the ratio strings drawn as lists of weights
MaxWeight == 2
\* most terms of the ratio strings drawn as lists of weights
MaxTerms == 3
\* largest width and height of the small bounding rectangles
MaxSize == 3

----------------------------------------------------------------------------
(* int and the C library's character and number conversions. *)

INT_MAX == 2147483647
INT_MIN == -INT_MAX - 1

\* int addition as the machine performs it (wrapping on overflow)
Add32(a, b) ==
    IF a >= 0 /\ b >= 0
    THEN IF a > INT_MAX - b THEN (a + INT_MIN) + (b + INT_MIN) ELSE a + b
    ELSE IF a < 0 /\ b < 0
         THEN IF a < INT_MIN - b THEN (a - INT_MIN) + (b - INT_MIN) ELSE a + b
         ELSE a + b

\* int negation (INT_MIN wraps to itself)
Neg32(a) == IF a = INT_MIN THEN INT_MIN ELSE -a

\* int subtraction as the machine performs it
Sub32(a, b) ==
    IF b = INT_MIN
    THEN IF a >= 0 THEN (a + INT_MIN) ELSE (a - INT_MIN)
    ELSE Add32(a, -b)

DigitChars == <<"0", "1", "2", "3", "4", "5", "6", "7", "8", "9">>

isdigit(c) == \E i \in 1..10 : DigitChars[i] = c

isspace(c) == c \in {" ", "\t", "\n"}

DigitVal(c) == (CHOOSE i \in 1..10 : DigitChars[i] = c) - 1

\* index of the first character at or after i that is not white space
RECURSIVE SkipSpace(_, _)
SkipSpace(s, i) ==
    IF i <= Len(s) /\ isspace(s[i]) THEN SkipSpace(s, i + 1) ELSE i

\* index of the first character at or after i that is not a digit
RECURSIVE SkipDigits(_, _)
SkipDigits(s, i) ==
    IF i <= Len(s) /\ isdigit(s[i]) THEN SkipDigits(s, i + 1) ELSE i

\* strtol(s, &p, 10): the index p is left at (Len(s) + 1 is the terminating
\* NUL); the start of the string when no digits were converted
strtolEnd(s) ==
    LET i0 == SkipSpace(s, 1)
        i1 == IF i0 <= Len(s) /\ s[i0] \in {"-", "+"} THEN i0 + 1 ELSE i0
        i2 == SkipDigits(s, i1)
    IN  IF i2 = i1 THEN 1 ELSE i2

\* the digits s[i..j-1] accumulated as a negative number, or 1 once the
\* magnitude exceeds 2^31
RECURSIVE AccumNeg(_, _, _, _)
AccumNeg(s, i, j, acc) ==
    IF i >= j THEN acc
    ELSE LET d == DigitVal(s[i])
         IN  IF acc < -214748364 \/ (acc = -214748364 /\ d > 8)
             THEN 1
             ELSE AccumNeg(s, i + 1, j, acc * 10 - d)

\* std::stoi(s): the int value, or the exception it throws
stoi(s) ==
    LET i0 == SkipSpace(s, 1)
        neg == i0 <= Len(s) /\ s[i0] = "-"
        i1 == IF i0 <= Len(s) /\ s[i0] \in {"-", "+"} THEN i0 + 1 ELSE i0
        i2 == SkipDigits(s, i1)
        acc == AccumNeg(s, i1, i2, 0)
    IN  IF i2 = i1 THEN [exc |-> "std::invalid_argument", val |-> 0]
        ELSE IF acc = 1 \/ (~neg /\ acc = INT_MIN)
             THEN [exc |-> "std::out_of_range", val |-> 0]
             ELSE [exc |-> "none", val |-> IF neg THEN acc ELSE -acc]

----------------------------------------------------------------------------
(* Layouts: the ratio grammar. *)

NoException == [exc |-> "none", what |-> ""]

InvalidRatioException(message) == [exc |-> "InvalidRatioException", what |-> message]

MsgNoColon == "Ratios must contain at least one colon."
MsgEndColon == "Ratios cannot begin or end with a colon."
MsgDoubleColon == "Ratios can only be delimited by single colons."
MsgNotInteger == "Ratios can only contain valid integers."
MsgZero == "Ratios cannot contain 0 as an integer."

\* Layouts::isInteger
\* a faulty variant that takes no token for an integer
isIntegerNever(s) == FALSE

isInteger(s) ==
    IF Len(s) = 0 \/ (~isdigit(s[1]) /\ s[1] # "-" /\ s[1] # "+")
    THEN FALSE
    ELSE strtolEnd(s) = Len(s) + 1

\* index of the first ':' of s at or after i, 0 when there is none
RECURSIVE FindColon(_, _)
FindColon(s, i) ==
    IF i > Len(s) THEN 0
    ELSE IF s[i] = ":" THEN i ELSE FindColon(s, i + 1)

\* the tokens that while(std::getline(ss, token, ':')) reads from s: no token
\* is read once the stream is at its end, so a trailing ':' adds none
RECURSIVE getlineTokens(_)
getlineTokens(s) ==
    IF Len(s) = 0 THEN <<>>
    ELSE LET c == FindColon(s, 1)
         IN  IF c = 0 THEN <<s>>
             ELSE <<SubSeq(s, 1, c - 1)>> \o getlineTokens(SubSeq(s, c + 1, Len(s)))

\* the token loop of Layouts::validateRatio from token i on
RECURSIVE ValidateTokens(_, _)
ValidateTokens(tokens, i) ==
    IF i > Len(tokens) THEN NoException
    ELSE IF ~isInteger(tokens[i]) THEN InvalidRatioException(MsgNotInteger)
    ELSE LET num == stoi(tokens[i])
         IN  IF num.exc # "none" THEN [exc |-> num.exc, what |-> "stoi"]
             ELSE IF num.val = 0 THEN InvalidRatioException(MsgZero)
             ELSE ValidateTokens(tokens, i + 1)

\* a faulty variant that looks for adjacent colons before colons at the ends
validateRatioColonsFirst(ratio) ==
    IF FindColon(ratio, 1) = 0
    THEN InvalidRatioException(MsgNoColon)
    ELSE IF \E i \in 2..Len(ratio) : ratio[i] = ":" /\ ratio[i - 1] = ":"
    THEN InvalidRatioException(MsgDoubleColon)
    ELSE IF ratio[1] = ":" \/ ratio[Len(ratio)] = ":"
    THEN InvalidRatioException(MsgEndColon)
    ELSE ValidateTokens(getlineTokens(ratio), 1)

\* Layouts::validateRatio: the exception that leaves it, NoException on return
validateRatio(ratio) ==
    IF FindColon(ratio, 1) = 0
    THEN InvalidRatioException(MsgNoColon)
    ELSE IF ratio[1] = ":" \/ ratio[Len(ratio)] = ":"
    THEN InvalidRatioException(MsgEndColon)
    ELSE IF \E i \in 2..Len(ratio) : ratio[i] = ":" /\ ratio[i - 1] = ":"
    THEN InvalidRatioException(MsgDoubleColon)
    ELSE ValidateTokens(getlineTokens(ratio), 1)

\* a faulty variant that yields the numbers last term first
extractNumsBackwards(ratio) ==
    LET tokens == getlineTokens(ratio)
    IN  [i \in 1..Len(tokens) |-> stoi(tokens[Len(tokens) + 1 - i]).val]

\* Layouts::extractNumsFromString, for a ratio validateRatio returned from
extractNumsFromString(ratio) ==
    LET tokens == getlineTokens(ratio)
    IN  [i \in 1..Len(tokens) |-> stoi(tokens[i]).val]

----------------------------------------------------------------------------
(* float: IEEE-754 binary32 with round-to-nearest-even.  A finite value is *)
(* (-1)^neg * m * 2^e with m = 0 or 2^23 <= m < 2^24.                      *)

FLT_MANT_DIG == 24

Pow2Table == [k \in 0..30 |-> 2^k]

Pow2(k) == Pow2Table[k]

F32Hidden == Pow2(FLT_MANT_DIG - 1)
F32Limit == Pow2(FLT_MANT_DIG)

F32Zero(neg) == [kind |-> "fin", neg |-> neg, m |-> 0, e |-> 0]
F32Inf(neg) == [kind |-> "inf", neg |-> neg, m |-> 0, e |-> 0]
F32NaN == [kind |-> "nan", neg |-> FALSE, m |-> 0, e |-> 0]

\* q * 2^e with remainder r out of half * 2, rounded to nearest, ties to even
F32Round(neg, q, r, half, e) ==
    LET up == r > half \/ (r = half /\ q % 2 = 1)
        q1 == IF up THEN q + 1 ELSE q
    IN  IF q1 = F32Limit
        THEN [kind |-> "fin", neg |-> neg, m |-> F32Hidden, e |-> e + 1]
        ELSE [kind |-> "fin", neg |-> neg, m |-> q1, e |-> e]

\* the number of bits of a positive integer below 2^31, counted from k up
RECURSIVE BitLen(_, _)
BitLen(a, k) == IF k = 31 \/ a < Pow2(k) THEN k ELSE BitLen(a, k + 1)

\* (float) n for an int n
F32FromInt(n) ==
    IF n = 0 THEN F32Zero(FALSE)
    ELSE IF n = INT_MIN THEN [kind |-> "fin", neg |-> TRUE, m |-> F32Hidden, e |-> 8]
    ELSE LET neg == n < 0
             a == IF neg THEN -n ELSE n
             bits == BitLen(a, 1)
             k == bits - FLT_MANT_DIG
         IN  IF k <= 0
             THEN [kind |-> "fin", neg |-> neg, m |-> a * Pow2(-k), e |-> k]
             ELSE F32Round(neg, a \div Pow2(k), a % Pow2(k), Pow2(k - 1), k)

\* the long division of two significands, six quotient bits a step, until
\* the quotient has 24 bits; then the remainder decides the rounding
RECURSIVE F32DivLoop(_, _, _, _, _, _)
F32DivLoop(neg, q, r, d, e, bits) ==
    IF bits = 0 THEN F32Round(neg, q, 2 * r, d, e)
    ELSE LET n == IF bits < 6 THEN bits ELSE 6
             t == r * Pow2(n)
         IN  F32DivLoop(neg, q * Pow2(n) + t \div d, t % d, d, e - n, bits - n)

\* x / y in float
F32Div(x, y) ==
    LET neg == x.neg # y.neg
    IN  IF x.kind = "nan" \/ y.kind = "nan" THEN F32NaN
        ELSE IF x.kind = "inf" THEN (IF y.kind = "inf" THEN F32NaN ELSE F32Inf(neg))
        ELSE IF y.kind = "inf" THEN F32Zero(neg)
        ELSE IF y.m = 0 THEN (IF x.m = 0 THEN F32NaN ELSE F32Inf(neg))
        ELSE IF x.m = 0 THEN F32Zero(neg)
        ELSE IF x.m >= y.m
        THEN F32DivLoop(neg, 1, x.m - y.m, y.m, x.e - y.e, FLT_MANT_DIG - 1)
        ELSE F32DivLoop(neg, 0, x.m, y.m, x.e - y.e, FLT_MANT_DIG)

\* x * y in float: the 48-bit product of the significands from 12-bit halves
F32Mul(x, y) ==
    LET neg == x.neg # y.neg
        half == Pow2(12)
        a1 == x.m \div half
        b1 == x.m % half
        a2 == y.m \div half
        b2 == y.m % half
        mid == a1 * b2 + a2 * b1
        low == (mid % half) * half + b1 * b2
        hi == a1 * a2 + mid \div half + low \div F32Limit
        lo == low % F32Limit
    IN  IF x.kind = "nan" \/ y.kind = "nan" THEN F32NaN
        ELSE IF x.kind = "inf" \/ y.kind = "inf"
        THEN (IF (x.kind = "fin" /\ x.m = 0) \/ (y.kind = "fin" /\ y.m = 0)
              THEN F32NaN ELSE F32Inf(neg))
        ELSE IF x.m = 0 \/ y.m = 0 THEN F32Zero(neg)
        ELSE IF hi >= F32Hidden
        THEN F32Round(neg, hi, lo, F32Hidden, x.e + y.e + 24)
        ELSE F32Round(neg, 2 * hi + lo \div F32Hidden, lo % F32Hidden,
                      F32Hidden \div 2, x.e + y.e + 23)

\* (int) x: truncation toward zero; the conversion is undefined when the
\* value is not finite or is out of the range of int, and then yields ub
F32ToInt(x, ub) ==
    IF x.kind # "fin" THEN ub
    ELSE IF x.m = 0 THEN 0
    ELSE IF x.e >= 8 THEN (IF x.neg /\ x.e = 8 /\ x.m = F32Hidden THEN INT_MIN ELSE ub)
    ELSE IF x.e >= 0 THEN (IF x.neg THEN -(x.m * Pow2(x.e)) ELSE x.m * Pow2(x.e))
    ELSE IF -x.e >= FLT_MANT_DIG THEN 0
    ELSE IF x.neg THEN -(x.m \div Pow2(-x.e)) ELSE x.m \div Pow2(-x.e)

\* what a build yields for an undefined float-to-int conversion: the x86
\* "integer indefinite" value, or the saturating conversion of other targets
UBConv == {INT_MIN, 0, INT_MAX}

----------------------------------------------------------------------------
(* Rect<int> and the partitioners. *)

IntRect(x, y, w, h) == [x |-> x, y |-> y, w |-> w, h |-> h]

ul(r) == [x |-> r.x, y |-> r.y]
ur(r) == [x |-> Add32(r.x, r.w), y |-> r.y]
ll(r) == [x |-> r.x, y |-> Add32(r.y, r.h)]
lr(r) == [x |-> Add32(r.x, r.w), y |-> Add32(r.y, r.h)]

\* int base = 0; for(int num : nums) base += num;
RECURSIVE RatioBase(_, _)
RatioBase(nums, i) ==
    IF i > Len(nums) THEN 0 ELSE Add32(nums[i], RatioBase(nums, i + 1))

\* float frac = (float) num / base; (int) (frac * full)
Proportion(num, base, full, ub) ==
    F32ToInt(F32Mul(F32Div(F32FromInt(num), F32FromInt(base)), F32FromInt(full)), ub)

\* a faulty variant that never truncates
TruncateNever(wanted, last, full) == wanted

\* if(last + 1 + wanted >= full) wanted = full - (last + 1);
Truncate(wanted, last, full) ==
    IF Add32(Add32(last, 1), wanted) >= full
    THEN Sub32(full, Add32(last, 1))
    ELSE wanted

\* a faulty variant that leaves no cell between two boxes
AdvanceNoGap(last, size) == Add32(last, size)

\* a faulty variant that leaves one cell too many between two boxes
AdvanceTooFar(last, size) == Add32(last, Add32(size, 2))

\* lastX += columns + 1; lastY += rows + 1;
Advance(last, size) == Add32(last, Add32(size, 1))

\* the loop of Layouts::calculateHBoxes from the i-th number on; HBoxPush is
\* the end of its body, from the push_back on
RECURSIVE HBoxesFrom(_, _, _, _, _, _, _, _)
RECURSIVE HBoxPush(_, _, _, _, _, _, _, _, _)
\* a faulty variant that makes every box as high as it is wide
HBoxPushSquare(nums, i, base, fullWidth, fullHeight, startY, lastX, ub, columns) ==
    <<IntRect(Add32(lastX, 1), startY, columns, columns)>>
        \o HBoxesFrom(nums, i + 1, base, fullWidth, fullHeight, startY,
                      Advance(lastX, columns), ub)

HBoxPush(nums, i, base, fullWidth, fullHeight, startY, lastX, ub, columns) ==
    <<IntRect(Add32(lastX, 1), startY, columns, fullHeight)>>
        \o HBoxesFrom(nums, i + 1, base, fullWidth, fullHeight, startY,
                      Advance(lastX, columns), ub)

HBoxesFrom(nums, i, base, fullWidth, fullHeight, startY, lastX, ub) ==
    IF i > Len(nums) THEN <<>>
    ELSE HBoxPush(nums, i, base, fullWidth, fullHeight, startY, lastX, ub,
                  Truncate(Proportion(nums[i], base, fullWidth, ub), lastX, fullWidth))

\* a faulty variant that takes the height from the screen whatever dim is
calculateHBoxesScreenHigh(nums, dim, cols, lines, ub) ==
    IF dim # <<>>
    THEN HBoxesFrom(nums, 1, RatioBase(nums, 1), dim[1].w, lines - 1, dim[1].y,
                    Sub32(dim[1].x, 1), ub)
    ELSE HBoxesFrom(nums, 1, RatioBase(nums, 1), cols - 1, lines - 1, 0, Sub32(0, 1), ub)

\* Layouts::calculateHBoxes; dim is <<>> for NULL, <<r>> for a pointer to r
calculateHBoxes(nums, dim, cols, lines, ub) ==
    IF dim # <<>>
    THEN HBoxesFrom(nums, 1, RatioBase(nums, 1), dim[1].w, dim[1].h, dim[1].y,
                    Sub32(dim[1].x, 1), ub)
    ELSE HBoxesFrom(nums, 1, RatioBase(nums, 1), cols - 1, lines - 1, 0, Sub32(0, 1), ub)

\* the loop of Layouts::calculateVBoxes from the i-th number on; VBoxPush is
\* the end of its body, from the push_back on
RECURSIVE VBoxesFrom(_, _, _, _, _, _, _, _)
RECURSIVE VBoxPush(_, _, _, _, _, _, _, _, _)
VBoxPush(nums, i, base, fullWidth, fullHeight, startX, lastY, ub, rows) ==
    <<IntRect(startX, Add32(lastY, 1), fullWidth, rows)>>
        \o VBoxesFrom(nums, i + 1, base, fullWidth, fullHeight, startX,
                      Advance(lastY, rows), ub)

\* a faulty variant that truncates the rows at the width
VBoxesFromWidth(nums, i, base, fullWidth, fullHeight, startX, lastY, ub) ==
    IF i > Len(nums) THEN <<>>
    ELSE VBoxPush(nums, i, base, fullWidth, fullHeight, startX, lastY, ub,
                  Truncate(Proportion(nums[i], base, fullHeight, ub), lastY, fullWidth))

VBoxesFrom(nums, i, base, fullWidth, fullHeight, startX, lastY, ub) ==
    IF i > Len(nums) THEN <<>>
    ELSE VBoxPush(nums, i, base, fullWidth, fullHeight, startX, lastY, ub,
                  Truncate(Proportion(nums[i], base, fullHeight, ub), lastY, fullHeight))

\* a faulty variant that leaves the screen no margin
calculateVBoxesNoMargin(nums, dim, cols, lines, ub) ==
    IF dim # <<>>
    THEN VBoxesFrom(nums, 1, RatioBase(nums, 1),
                    Sub32(ur(dim[1]).x, ul(dim[1]).x), Sub32(lr(dim[1]).y, ur(dim[1]).y),
                    ul(dim[1]).x, Sub32(ul(dim[1]).y, 1), ub)
    ELSE VBoxesFrom(nums, 1, RatioBase(nums, 1), cols, lines, 0, Sub32(0, 1), ub)

\* Layouts::calculateVBoxes
calculateVBoxes(nums, dim, cols, lines, ub) ==
    IF dim # <<>>
    THEN VBoxesFrom(nums, 1, RatioBase(nums, 1),
                    Sub32(ur(dim[1]).x, ul(dim[1]).x), Sub32(lr(dim[1]).y, ur(dim[1]).y),
                    ul(dim[1]).x, Sub32(ul(dim[1]).y, 1), ub)
    ELSE VBoxesFrom(nums, 1, RatioBase(nums, 1), cols - 1, lines - 1, 0, Sub32(0, 1), ub)

\* what a call leaves: the exception thrown out of it, or the boxes returned
Thrown(e) == [exc |-> e.exc, what |-> e.what, boxes |-> <<>>]
Returned(bs) == [exc |-> "none", what |-> "", boxes |-> bs]

\* a faulty variant whose catch clause throws a reason of its own
customHLayoutAfterOwnReason(e, ratio, dim, cols, lines, ub) ==
    IF e.exc # "none" THEN Thrown(InvalidRatioException(MsgNotInteger))
    ELSE Returned(calculateHBoxes(extractNumsFromString(ratio), dim, cols, lines, ub))

\* Layouts::customHLayout after validateRatio(ratio) has left e: the catch
\* clause rethrows an InvalidRatioException with e.what(), any other
\* exception passes through, and on return the boxes are calculated
customHLayoutAfter(e, ratio, dim, cols, lines, ub) ==
    IF e.exc = "InvalidRatioException" THEN Thrown(InvalidRatioException(e.what))
    ELSE IF e.exc # "none" THEN Thrown(e)
    ELSE Returned(calculateHBoxes(extractNumsFromString(ratio), dim, cols, lines, ub))

\* Layouts::customHLayout
customHLayout(ratio, dim, cols, lines, ub) ==
    customHLayoutAfter(validateRatio(ratio), ratio, dim, cols, lines, ub)

\* Layouts::customVLayout after validateRatio(ratio) has left e
customVLayoutAfter(e, ratio, dim, cols, lines, ub) ==
    IF e.exc = "InvalidRatioException" THEN Thrown(InvalidRatioException(e.what))
    ELSE IF e.exc # "none" THEN Thrown(e)
    ELSE Returned(calculateVBoxes(extractNumsFromString(ratio), dim, cols, lines, ub))

\* Layouts::customVLayout
customVLayout(ratio, dim, cols, lines, ub) ==
    customVLayoutAfter(validateRatio(ratio), ratio, dim, cols, lines, ub)

----------------------------------------------------------------------------
(* The inputs the calls are made with. *)

\* the decimal digits of a natural number
RECURSIVE Digits(_)
Digits(n) ==
    IF n < 10 THEN <<DigitChars[n + 1]>>
    ELSE Digits(n \div 10) \o <<DigitChars[(n % 10) + 1]>>

\* an int written out, with its sign when negative
Str(n) == IF n < 0 THEN <<"-">> \o Digits(-n) ELSE Digits(n)

\* the tokens joined by colons
RECURSIVE Join(_)
Join(tokens) ==
    IF Len(tokens) = 0 THEN <<>>
    ELSE IF Len(tokens) = 1 THEN tokens[1]
    ELSE tokens[1] \o <<":">> \o Join(Tail(tokens))

\* the ratio string of a list of weights, "1:1:2" for <<1, 1, 2>>
Ratio(nums) == Join([i \in 1..Len(nums) |-> Str(nums[i])])

Alphabet == {"0", "1", "2", "-", "+", ":", "a"}

\* every string over the alphabet up to MaxLen characters
CharStrings == UNION {[1..n -> Alphabet] : n \in 0..MaxLen}

\* the ratio strings of 2..MaxTerms positive weights up to MaxWeight
WeightStrings == {Ratio(nums) : nums \in UNION {[1..n -> 1..MaxWeight] : n \in 2..MaxTerms}}

TooBigForInt == <<"2", "1", "4", "7", "4", "8", "3", "6", "4", "8">>
TooBigForLong == [i \in 1..20 |-> "9"]

\* ratio strings named by the documentation, and strings with long tokens
ExampleRatios ==
    { Ratio(<<3, 2, 1, 1>>), Ratio(<<7, 5>>), Ratio(<<13, 9>>),
      Ratio(<<-1, 2>>), Ratio(<<1, -1>>), Ratio(<<2, -1, -1>>), Ratio(<<-1, -2>>),
      Join(<<TooBigForInt, Str(1)>>), Join(<<Str(1), TooBigForInt>>),
      Join(<<TooBigForLong, Str(0)>>), Join(<<TooBigForInt, <<"a">>>>),
      Join(<<<<"-">> \o TooBigForInt, Str(2)>>),
      Join(<<Str(1), <<"a">>, Str(2)>>), Ratio(<<1, 0, 2>>) }

NULL == <<>>

Origins == {0, 3}

SmallRects ==
    {IntRect(x, y, w, h) : x \in Origins, y \in Origins, w \in 0..MaxSize, h \in 0..MaxSize}

ExampleRects ==
    { IntRect(0, 0, 99, 29), IntRect(0, 0, 30, 30), IntRect(0, 0, 108, 22),
      IntRect(0, 0, 22, 108), IntRect(10, 10, 20, 20) }

\* the bounding rectangles passed: none, or a pointer to a rectangle
Dims == {NULL} \cup {<<r>> : r \in SmallRects \cup ExampleRects}

\* the terminal sizes (COLS, LINES) curses reports
TermSizes == {<<100, 30>>}

\* the terminal sizes a resize of the terminal leads to
ResizedSizes == TermSizes \cup {<<80, 24>>}

Custom == {"customHLayout", "customVLayout"}

HPresets == {"HSplit", "HTwoThirdsLeft", "HTwoThirdsRight", "HThirds"}

VPresets == {"VSplit", "VTwoThirdsAbove", "VTwoThirdsBelow", "VThirds"}

\* the ratio string each preset passes on
PresetRatio(name) ==
    CASE name \in {"HSplit", "VSplit"} -> Ratio(<<1, 1>>)
      [] name \in {"HTwoThirdsLeft", "VTwoThirdsAbove"} -> Ratio(<<2, 1>>)
      [] name \in {"HTwoThirdsRight", "VTwoThirdsBelow"} -> Ratio(<<1, 2>>)
      [] name \in {"HThirds", "VThirds"} -> Ratio(<<1, 1, 1>>)

----------------------------------------------------------------------------
(* The state: the arguments and the outcome of the latest layout call. *)

VARIABLES
    COLS,     \* curses' column count
    LINES,    \* curses' line count
    op,       \* the function called (before the first call: about to be)
    ratio,    \* the ratio string it is called with
    dim,      \* its bounding rectangle: NULL or <<r>>
    pc,       \* "ready" before the call, then "returned" or "thrown"
    exc,      \* the exception thrown: [exc, what]
    boxes,    \* the rectangles returned
    outer,    \* <<>>, or <<the call before>>: with idx = j > 0 the call whose
              \* j-th box was passed as dim, with idx = 0 the same call made before
    at,       \* <<COLS, LINES>> as they were at the latest call
    build,    \* <<what an undefined float-to-int conversion yields in this
              \* build>>, <<>> until one is made
    panels,   \* the Panel objects, in the order of their construction
    windows,  \* curses' windows, in the order newwin made them; a Panel's
              \* win is an index into them
    trace,    \* the curses calls and draws of the latest operation (in the
              \* demo: of the loop iteration so far), in order
    old,      \* panels and windows as they were before the latest operation
    call,     \* the latest operation on a Panel and its arguments
    key       \* the key the demo's getch returned last

vars == <<COLS, LINES, op, ratio, dim, pc, exc, boxes, outer, at, build,
          panels, windows, trace, old, call, key>>

\* what the layout functions work with and what the panels do
lvars == <<op, ratio, dim, exc, boxes, outer, at, build>>
pvars == <<panels, windows, trace, old, call, key>>

NoCall == [name |-> "", dim |-> <<>>, title |-> ""]

\* no Panel has been made
NoPanels ==
    /\ panels = <<>>
    /\ windows = <<>>
    /\ trace = <<>>
    /\ old = [panels |-> <<>>, windows |-> <<>>]
    /\ call = NoCall
    /\ key = ""

Init ==
    /\ \E t \in TermSizes : COLS = t[1] /\ LINES = t[2]
    /\ \/ op \in Custom /\ ratio \in CharStrings /\ dim = NULL
       \/ op \in Custom /\ ratio \in WeightStrings \cup ExampleRatios /\ dim \in Dims
       \/ op \in HPresets \cup VPresets /\ ratio = PresetRatio(op) /\ dim \in Dims
    /\ pc = "ready"
    /\ exc = NoException
    /\ boxes = <<>>
    /\ outer = <<>>
    /\ at = <<COLS, LINES>>
    /\ build = <<>>
    /\ NoPanels

\* whether every float-to-int conversion of the partitioners is defined for
\* these arguments: the quotient is finite and the product is below 2^30
ConversionsDefined(nums, d, cols, lines) ==
    /\ RatioBase(nums, 1) # 0
    /\ \A i \in 1..Len(nums) : nums[i] > -Pow2(15) /\ nums[i] < Pow2(15)
    /\ \A full \in (IF d # NULL THEN {d[1].w, d[1].h} ELSE {cols - 1, lines - 1}) :
            full > -Pow2(15) /\ full < Pow2(15)

\* the values an undefined conversion of the call may yield: a single one
\* (never used) when no conversion of the call is undefined
UBOutcomes(r, d, cols, lines) ==
    IF validateRatio(r).exc # "none" THEN {0}
    ELSE IF ConversionsDefined(extractNumsFromString(r), d, cols, lines) THEN {0}
    ELSE UBConv

\* the calls whose rectangles are laid out again: the presets' and, as in the
\* panel demo, those of a custom layout of the full screen
SubLayoutOf == op \in HPresets \cup VPresets \/ dim = NULL

\* whether name is called next: as the first call, or as a sub-layout
CanCall(name) ==
    /\ pc \in {"ready", "returned"}
    /\ pc = "ready" => op = name
    /\ pc = "returned" => outer = <<>> /\ SubLayoutOf

\* what the next call is made on: 0 for the drawn rectangle (the first
\* call), j for the j-th of the rectangles the call before returned
Targets == IF pc = "ready" THEN {0} ELSE 1..Len(boxes)

\* the latest call, as the call after it remembers it
Earlier(j) ==
    [op |-> op, ratio |-> ratio, dim |-> dim, boxes |-> boxes, exc |-> exc,
     at |-> at, idx |-> j]

\* the call name(r, d) and what it leaves; an undefined conversion yields
\* what the build's earlier ones did
InvokeOn(name, r, d, before) ==
    \E outs \in {UBOutcomes(r, d, COLS, LINES)} :
      \E ub \in (IF outs = {0} \/ build = <<>> THEN outs ELSE {build[1]}) :
        \E res \in {IF name \in HPresets \cup {"customHLayout"}
                    THEN customHLayout(r, d, COLS, LINES, ub)
                    ELSE customVLayout(r, d, COLS, LINES, ub)} :
          /\ op' = name
          /\ ratio' = r
          /\ dim' = d
          /\ exc' = [exc |-> res.exc, what |-> res.what]
          /\ boxes' = res.boxes
          /\ pc' = IF res.exc = "none" THEN "returned" ELSE "thrown"
          /\ outer' = before
          /\ at' = <<COLS, LINES>>
          /\ build' = IF outs = {0} THEN build ELSE <<ub>>
          /\ UNCHANGED <<COLS, LINES>>
          /\ UNCHANGED pvars

\* the call name(r, d), d being target j
Invoke(name, r, j) ==
    InvokeOn(name, r, IF j = 0 THEN dim ELSE <<boxes[j]>>,
             IF j = 0 THEN <<>> ELSE <<Earlier(j)>>)

CustomHLayout ==
    /\ CanCall("customHLayout")
    /\ \E j \in Targets : Invoke("customHLayout", ratio, j)

CustomVLayout ==
    /\ CanCall("customVLayout")
    /\ \E j \in Targets : Invoke("customVLayout", ratio, j)

HSplit ==
    /\ CanCall("HSplit")
    /\ \E j \in Targets : Invoke("HSplit", Ratio(<<1, 1>>), j)

\* a faulty variant that passes the ratio of HTwoThirdsRight
HTwoThirdsLeftAsRight ==
    /\ CanCall("HTwoThirdsLeft")
    /\ \E j \in Targets : Invoke("HTwoThirdsLeft", Ratio(<<1, 2>>), j)

HTwoThirdsLeft ==
    /\ CanCall("HTwoThirdsLeft")
    /\ \E j \in Targets : Invoke("HTwoThirdsLeft", Ratio(<<2, 1>>), j)

HTwoThirdsRight ==
    /\ CanCall("HTwoThirdsRight")
    /\ \E j \in Targets : Invoke("HTwoThirdsRight", Ratio(<<1, 2>>), j)

HThirds ==
    /\ CanCall("HThirds")
    /\ \E j \in Targets : Invoke("HThirds", Ratio(<<1, 1, 1>>), j)

VSplit ==
    /\ CanCall("VSplit")
    /\ \E j \in Targets : Invoke("VSplit", Ratio(<<1, 1>>), j)

VTwoThirdsAbove ==
    /\ CanCall("VTwoThirdsAbove")
    /\ \E j \in Targets : Invoke("VTwoThirdsAbove", Ratio(<<2, 1>>), j)

VTwoThirdsBelow ==
    /\ CanCall("VTwoThirdsBelow")
    /\ \E j \in Targets : Invoke("VTwoThirdsBelow", Ratio(<<1, 2>>), j)

VThirds ==
    /\ CanCall("VThirds")
    /\ \E j \in Targets : Invoke("VThirds", Ratio(<<1, 1, 1>>), j)

Next ==
    \/ CustomHLayout
    \/ CustomVLayout
    \/ HSplit
    \/ HTwoThirdsLeft
    \/ HTwoThirdsRight
    \/ HThirds
    \/ VSplit
    \/ VTwoThirdsAbove
    \/ VTwoThirdsBelow
    \/ VThirds

Spec == Init /\ [][Next]_vars

----------------------------------------------------------------------------
(* The same call made twice, the terminal resized in between or not. *)

InitAgain ==
    /\ \E t \in TermSizes : COLS = t[1] /\ LINES = t[2]
    /\ \/ op \in Custom /\ ratio \in ExampleRatios /\ dim \in Dims
       \/ op \in Custom /\ ratio \in WeightStrings
            /\ dim \in {NULL} \cup {<<r>> : r \in ExampleRects}
       \/ op \in HPresets \cup VPresets /\ ratio = PresetRatio(op) /\ dim \in Dims
    /\ pc = "ready"
    /\ exc = NoException
    /\ boxes = <<>>
    /\ outer = <<>>
    /\ at = <<COLS, LINES>>
    /\ build = <<>>
    /\ NoPanels

\* the first layout call
First ==
    /\ pc = "ready"
    /\ Next

\* the terminal is resized: curses sets COLS and LINES
Resize ==
    /\ outer = <<>>
    /\ \E t \in ResizedSizes \ {<<COLS, LINES>>} : COLS' = t[1] /\ LINES' = t[2]
    /\ UNCHANGED <<op, ratio, dim, pc, exc, boxes, outer, at, build>>
    /\ UNCHANGED pvars

\* the layout function is called again with the arguments of the call before
CallAgain ==
    /\ pc \in {"returned", "thrown"}
    /\ outer = <<>>
    /\ InvokeOn(op, ratio, dim, <<Earlier(0)>>)

NextAgain ==
    \/ First
    \/ Resize
    \/ CallAgain

SpecAgain == InitAgain /\ [][NextAgain]_vars

----------------------------------------------------------------------------
(* What the claims are stated with. *)

HOps == HPresets \cup {"customHLayout"}
VOps == VPresets \cup {"customVLayout"}

\* the bounding rectangle of the latest call: the one passed, or the screen
\* less its one-cell margin
Bounding == IF dim # NULL THEN dim[1] ELSE IntRect(0, 0, at[1] - 1, at[2] - 1)

\* the positions of the colons of s, with 0 and Len(s) + 1 at the two ends
Cuts(s) == {0, Len(s) + 1} \cup {i \in 1..Len(s) : s[i] = ":"}

\* the colon-delimited tokens of s, as a set of substrings; a string with n
\* colons has n + 1 of them, some of them possibly empty
TokenSet(s) ==
    {SubSeq(s, a + 1, b - 1) : <<a, b>> \in
        {c \in Cuts(s) \X Cuts(s) :
            c[1] < c[2] /\ ~\E m \in Cuts(s) : c[1] < m /\ m < c[2]}}

\* the number of colon-delimited terms of s
NumTerms(s) == Cardinality(Cuts(s)) - 1

\* the k-th colon-delimited token of s
KthToken(s, k) ==
    LET a == CHOOSE c \in Cuts(s) : Cardinality({m \in Cuts(s) : m < c}) = k - 1
        b == CHOOSE c \in Cuts(s) : Cardinality({m \in Cuts(s) : m < c}) = k
    IN  SubSeq(s, a + 1, b - 1)

\* an optionally signed base-10 integer: [+-]?[0-9]+
IsDecimal(t) ==
    /\ Len(t) >= 1
    /\ \/ isdigit(t[1])
       \/ t[1] \in {"-", "+"} /\ Len(t) >= 2
    /\ \A i \in 2..Len(t) : isdigit(t[i])

\* a base-10 integer whose value is zero
IsZero(t) == IsDecimal(t) /\ \A i \in 1..Len(t) : t[i] \in {"0", "-", "+"}

\* the value of a base-10 integer of at most nine digits
RECURSIVE DecimalFrom(_, _, _)
DecimalFrom(t, i, acc) ==
    IF i > Len(t) THEN acc ELSE DecimalFrom(t, i + 1, 10 * acc + DigitVal(t[i]))

DecimalValue(t) ==
    IF t[1] = "-" THEN -DecimalFrom(t, 2, 0)
    ELSE IF t[1] = "+" THEN DecimalFrom(t, 2, 0)
    ELSE DecimalFrom(t, 1, 0)

\* the malformed ratio strings the validator is documented to reject
Malformed(s) ==
    \/ ~\E i \in 1..Len(s) : s[i] = ":"
    \/ s[1] = ":"
    \/ s[Len(s)] = ":"
    \/ \E i \in 2..Len(s) : s[i] = ":" /\ s[i - 1] = ":"
    \/ \E t \in TokenSet(s) : ~IsDecimal(t) \/ IsZero(t)

\* the grammar INTEGER (":" INTEGER)+, every INTEGER signed or not, not zero
InGrammar(s) ==
    /\ NumTerms(s) >= 2
    /\ \A t \in TokenSet(s) : IsDecimal(t) /\ ~IsZero(t)

\* the latest call was one of the two custom layouts and is over
CustomCallDone == pc # "ready" /\ op \in Custom

----------------------------------------------------------------------------
(* C1.  customHLayout and customVLayout fail with InvalidRatio for every   *)
(* ratio string that contains no colon, begins or ends with a colon, has   *)
(* two adjacent colons, has a token that is not a base-10 integer, or has  *)
(* a token equal to zero.                                                  *)
(* The code contradicts it: a token past the range of int makes std::stoi  *)
(* throw std::out_of_range out of validateRatio before a later malformed   *)
(* token is looked at (C14's defect).                                      *)
C1_MalformedRaisesInvalidRatio ==
    CustomCallDone /\ Malformed(ratio)
        => pc = "thrown" /\ exc.exc = "InvalidRatioException"

----------------------------------------------------------------------------
(* C2.  A ratio string is accepted by the validator (the call returns) if  *)
(* and only if it has the form INTEGER (":" INTEGER)+ with every INTEGER   *)
(* an optionally signed, non-zero base-10 integer.                         *)
(* The code contradicts it: a string of the grammar with a token past the  *)
(* range of int is not accepted, std::stoi throws std::out_of_range.       *)
C2_AcceptedIffInGrammar ==
    CustomCallDone => (pc = "returned" <=> InGrammar(ratio))

----------------------------------------------------------------------------
(* What the geometry claims are stated with. *)

\* the weights of the latest call's ratio, in source order
Weights == extractNumsFromString(ratio)

PositiveWeights == \A i \in 1..Len(Weights) : Weights[i] > 0

\* the extent that is divided and the origin it is divided from
FullExtent == IF op \in HOps THEN Bounding.w ELSE Bounding.h
StartOf == IF op \in HOps THEN Bounding.x ELSE Bounding.y

\* the position and the size of a rectangle along the divided axis
Pos(b) == IF op \in HOps THEN b.x ELSE b.y
Size(b) == IF op \in HOps THEN b.w ELSE b.h

\* no float-to-int conversion of the latest call was undefined
Defined == ConversionsDefined(Weights, dim, at[1], at[2])

----------------------------------------------------------------------------
(* C3.  For an accepted ratio with N terms, customHLayout and              *)
(* customVLayout return exactly N rectangles, and the i-th rectangle is    *)
(* derived from the i-th term in source order: its size along the divided  *)
(* axis is the i-th term's share of the full extent, or what the clamp     *)
(* left of it.                                                             *)
C3_OneRectanglePerTermInOrder ==
    pc = "returned" =>
        /\ Len(boxes) = NumTerms(ratio)
        /\ Defined =>
            \A i \in 1..Len(boxes) :
                Size(boxes[i]) \in
                    {Proportion(DecimalValue(KthToken(ratio, i)),
                                RatioBase(Weights, 1), FullExtent, 0),
                     Sub32(FullExtent, Pos(boxes[i]))}

\* a returned call whose terms all differ and whose rectangles all keep
\* their own share
C3_Witness ==
    /\ pc = "returned"
    /\ ratio = Ratio(<<3, 2, 1, 1>>)
    /\ dim # NULL /\ dim[1].w = 99
    /\ op = "customHLayout"
    /\ Len(boxes) = 4
    /\ boxes[1].w = 42 /\ boxes[2].w = 28 /\ boxes[3].w = 14

----------------------------------------------------------------------------
(* C4.  Adjacent rectangles are one cell apart: each rectangle of a        *)
(* horizontal layout starts at x = previous.x + previous.w + 1 and each    *)
(* rectangle of a vertical layout at y = previous.y + previous.h + 1, in   *)
(* int arithmetic; the first starts at the origin of the bounding          *)
(* rectangle, and the other axis is the bounding rectangle's own.          *)
C4_AdjacentOneApart ==
    pc = "returned" =>
        /\ Pos(boxes[1]) = StartOf
        /\ \A i \in 1..(Len(boxes) - 1) :
            Pos(boxes[i + 1]) =
                Add32(Add32(Pos(boxes[i]), Size(boxes[i])), 1)
        /\ \A i \in 1..Len(boxes) :
            IF op \in HOps
            THEN boxes[i].y = Bounding.y /\ boxes[i].h = Bounding.h
            ELSE boxes[i].x = Bounding.x /\ boxes[i].w = Bounding.w

\* a three-way split away from the screen's origin, no rectangle clamped
C4_Witness ==
    /\ pc = "returned"
    /\ op = "VThirds"
    /\ dim # NULL /\ dim[1].y = 10 /\ dim[1].h = 20
    /\ Len(boxes) = 3
    /\ boxes[1].y = 10 /\ boxes[2].y > 10 /\ boxes[3].y > boxes[2].y

----------------------------------------------------------------------------
\* a / b with the remainder dropped, for b > 0
TruncDiv(a, b) == IF a >= 0 THEN a \div b ELSE -((-a) \div b)

\* the share of the full extent the i-th weight is documented to get
Share(i) == TruncDiv(Weights[i] * FullExtent, RatioBase(Weights, 1))

\* the cells a rectangle occupies along the divided axis
Cells(b) == Pos(b)..(Pos(b) + Size(b))

\* a returned call with positive weights and no undefined conversion
PositiveCall == pc = "returned" /\ PositiveWeights /\ Defined

----------------------------------------------------------------------------
(* C5.  For positive weights with sum base, the width customHLayout gives  *)
(* the rectangle for weight w is w * fullWidth / base with the remainder   *)
(* dropped, except that it is fullWidth - x when x plus that width is      *)
(* >= fullWidth, x being the rectangle's origin.                           *)
(* The code contradicts it: the share is computed in float, as the product *)
(* of the rounded quotient w / base and fullWidth, and falls one short of  *)
(* the exact quotient for some weights.                                    *)
C5_WidthIsExactShareOrClamp ==
    PositiveCall /\ op \in HOps =>
        \A i \in 1..Len(boxes) :
            boxes[i].w = IF boxes[i].x + Share(i) >= Bounding.w
                         THEN Bounding.w - boxes[i].x
                         ELSE Share(i)

----------------------------------------------------------------------------
(* C6.  For positive weights and a bounding rectangle R with any origin,   *)
(* every rectangle of customHLayout lies within R's horizontal extent,     *)
(* R.x <= x and x + width <= R.x + R.w, and every rectangle of             *)
(* customVLayout within R's vertical extent.                               *)
(* The code contradicts it: the clamp compares the absolute cursor with    *)
(* the extent of R, not with R's far edge.                                 *)
C6_ClampKeepsWithinBounding ==
    PositiveCall =>
        \A i \in 1..Len(boxes) :
            /\ StartOf <= Pos(boxes[i])
            /\ Pos(boxes[i]) + Size(boxes[i]) <= StartOf + FullExtent

----------------------------------------------------------------------------
(* C7.  For positive weights, the rectangles are laid out in order with no *)
(* gaps and no overlaps: taking the cells of a rectangle along the divided *)
(* axis to be x..x+w (y..y+h), the cells of the N rectangles are pairwise  *)
(* disjoint, those of an earlier rectangle come before those of a later    *)
(* one, and together they are one run of cells that starts at the origin   *)
(* of the bounding rectangle.                                              *)
(* A rectangle the clamp left with a negative size has no cells.           *)
C7_NoGapsNoOverlaps ==
    PositiveCall =>
        /\ \A i \in 1..Len(boxes) : \A j \in (i + 1)..Len(boxes) :
            /\ Cells(boxes[i]) \cap Cells(boxes[j]) = {}
            /\ Size(boxes[i]) >= 0 /\ Size(boxes[j]) >= 0
                => Pos(boxes[i]) + Size(boxes[i]) < Pos(boxes[j])
        /\ LET all == UNION {Cells(boxes[i]) : i \in 1..Len(boxes)}
           IN  all = StartOf..(StartOf + Cardinality(all) - 1)

\* three rectangles, each with cells of its own, the last one clamped
C7_Witness ==
    /\ PositiveCall
    /\ op = "HThirds"
    /\ Len(boxes) = 3
    /\ Bounding.w = 99 /\ Bounding.x = 0
    /\ \A i \in 1..3 : Size(boxes[i]) > 0
    /\ boxes[3].w < boxes[2].w

----------------------------------------------------------------------------
(* C8.  For every valid descriptor and every bounding rectangle with       *)
(* non-negative width and height, no emitted dimension is negative, and    *)
(* the size along the divided axis is strictly positive unless the clamp   *)
(* truncated it.                                                           *)
(* The code contradicts it: once the cursor has passed the far edge the    *)
(* clamp yields fullWidth - (lastX + 1) < 0.                               *)
C8_NoNegativeDimension ==
    pc = "returned" /\ Defined /\ Bounding.w >= 0 /\ Bounding.h >= 0 =>
        \A i \in 1..Len(boxes) :
            /\ boxes[i].w >= 0
            /\ boxes[i].h >= 0
            /\ Size(boxes[i]) = 0 =>
                Pos(boxes[i]) + Proportion(Weights[i], RatioBase(Weights, 1),
                                           FullExtent, 0) >= FullExtent

----------------------------------------------------------------------------
\* the second rectangle of an HSplit of a given rectangle was laid out again
\* with VThirds
HSplitThenVThirds ==
    /\ pc = "returned" /\ op = "VThirds"
    /\ outer # <<>> /\ outer[1].op = "HSplit" /\ outer[1].idx = 2
    /\ outer[1].dim # NULL

(* C9.  Partitioning a rectangle R with HSplit and then the second         *)
(* returned rectangle with VThirds yields three rectangles within R: no x  *)
(* coordinate is left of R.x or exceeds R.x + R.w, no y coordinate is      *)
(* above R.y or exceeds R.y + R.h.                                         *)
(* The code contradicts it: a clamped rectangle is followed by one that    *)
(* starts past the far edge.                                               *)
C9_SubLayoutWithinOuter ==
    HSplitThenVThirds =>
        LET R == outer[1].dim[1]
        IN  /\ Len(boxes) = 3
            /\ \A i \in 1..Len(boxes) :
                /\ \A x \in {boxes[i].x, boxes[i].x + boxes[i].w} :
                    R.x <= x /\ x <= R.x + R.w
                /\ \A y \in {boxes[i].y, boxes[i].y + boxes[i].h} :
                    R.y <= y /\ y <= R.y + R.h

----------------------------------------------------------------------------
\* VThirds was called on a rectangle of height 30 at y = 0 and returned
VThirdsOfThirty ==
    /\ pc = "returned" /\ op = "VThirds" /\ outer = <<>>
    /\ dim # NULL /\ dim[1].h = 30 /\ dim[1].y = 0

(* C10.  As stated: VThirds on a bounding rectangle of height 30 at y = 0  *)
(* yields three rectangles of height 10 at y = 0, 10 and 20, none of them  *)
(* clamped.  The statement leaves out the cell the cursor skips between    *)
(* two rectangles.                                                         *)
C10_AsStated ==
    VThirdsOfThirty =>
        /\ Len(boxes) = 3
        /\ \A i \in 1..3 : boxes[i].h = 10 /\ boxes[i].y = 10 * (i - 1)

(* C10, amended.  VThirds on a bounding rectangle of height 30 at y = 0    *)
(* yields three rectangles at y = 0, 11 and 22: each share is 10 rows, the *)
(* first two keep it, and the clamp truncates the third to 30 - 22 = 8.    *)
C10_ThirdsOfThirty ==
    VThirdsOfThirty =>
        /\ Len(boxes) = 3
        /\ \A i \in 1..3 : Proportion(Weights[i], RatioBase(Weights, 1), 30, 0) = 10
        /\ boxes[1].y = 0 /\ boxes[1].h = 10
        /\ boxes[2].y = 11 /\ boxes[2].h = 10
        /\ boxes[3].y = 22 /\ boxes[3].h = 8

C10_Witness ==
    /\ VThirdsOfThirty
    /\ Len(boxes) = 3
    /\ boxes[3].y + boxes[3].h = 30

----------------------------------------------------------------------------
(* C11.  customHLayout("1:1:2") over a 99-wide, 29-high bounding area at   *)
(* origin (0,0) yields three rectangles of widths 24, 24 and 49, the third *)
(* being clamped to fullWidth - (lastX + 1), at x = 0, 25 and 50, each at  *)
(* y = 0 with height 29.                                                   *)
C11_OneOneTwoOfNinetyNine ==
    /\ pc = "returned" /\ op = "customHLayout" /\ ratio = Ratio(<<1, 1, 2>>)
    /\ Bounding = IntRect(0, 0, 99, 29)
    => /\ boxes = <<IntRect(0, 0, 24, 29), IntRect(25, 0, 24, 29),
                    IntRect(50, 0, 49, 29)>>
       /\ Proportion(2, 4, 99, 0) + 50 >= 99
       /\ boxes[3].w = 99 - (49 + 1)

\* the demo's first call, on a terminal of 100 columns and 30 lines
C11_Witness ==
    /\ pc = "returned" /\ op = "customHLayout" /\ ratio = Ratio(<<1, 1, 2>>)
    /\ dim = NULL /\ at = <<100, 30>> /\ outer = <<>>
    /\ Len(boxes) = 3

----------------------------------------------------------------------------
(* C12.  When the validator rejects the ratio string, customHLayout and    *)
(* customVLayout raise InvalidRatio with exactly the reason message the    *)
(* validator produced, and return no rectangles: the partitioner is not    *)
(* run.                                                                    *)
C12_ValidatorReasonPropagated ==
    pc # "ready" /\ validateRatio(ratio).exc = "InvalidRatioException" =>
        /\ pc = "thrown"
        /\ exc.exc = "InvalidRatioException"
        /\ exc.what = validateRatio(ratio).what
        /\ boxes = <<>>

\* a string with two adjacent colons was passed and rejected for them
C12_Witness ==
    /\ pc = "thrown" /\ op = "customHLayout"
    /\ ratio = <<"1", ":", ":", "2">>
    /\ exc = InvalidRatioException(MsgDoubleColon)
    /\ boxes = <<>>

----------------------------------------------------------------------------
(* C13.  None of the eight presets ever raises InvalidRatio, for any       *)
(* bounding rectangle or none.                                             *)
C13_PresetsNeverRaise ==
    pc # "ready" /\ op \in HPresets \cup VPresets =>
        exc.exc # "InvalidRatioException"

\* a preset returned, once for the screen and once for a rectangle of it
C13_Witness ==
    /\ pc = "returned" /\ op = "VTwoThirdsBelow"
    /\ outer # <<>> /\ outer[1].op = "HThirds" /\ outer[1].dim = NULL
    /\ Len(boxes) = 2

----------------------------------------------------------------------------
(* C14.  InvalidRatio is the only error of the layout engine: for every    *)
(* input string and every bounding rectangle, customHLayout and            *)
(* customVLayout either return rectangles or fail with InvalidRatio.       *)
(* The code contradicts it: std::stoi throws std::out_of_range for a token *)
(* of digits whose value does not fit an int, and nothing catches it.      *)
C14_OnlyInvalidRatio ==
    pc = "thrown" => exc.exc = "InvalidRatioException"

----------------------------------------------------------------------------
\* what the latest call left
Outcome == [exc |-> exc.exc, what |-> exc.what, boxes |-> boxes]

\* what an undefined conversion yields in this build, 0 when none was made
UBOfBuild == IF build = <<>> THEN 0 ELSE build[1]

\* what the layout function name leaves for (r, d) on the terminal the
\* latest call saw
LayoutOf(name, r, d) ==
    IF name \in HOps
    THEN customHLayout(r, d, at[1], at[2], UBOfBuild)
    ELSE customVLayout(r, d, at[1], at[2], UBOfBuild)

\* the latest call repeated the call before it
CalledAgain == outer # <<>> /\ outer[1].idx = 0

(* C15.  The layout functions are pure: a call of the same function with   *)
(* the same ratio and bounding rectangle leaves what the call before left, *)
(* the same rectangles or the same error; with a bounding rectangle this   *)
(* holds whatever the terminal size is at either call.                     *)
C15_SameArgumentsSameResult ==
    CalledAgain /\ (dim # NULL \/ at = outer[1].at) =>
        /\ boxes = outer[1].boxes
        /\ exc = outer[1].exc

\* a call with a bounding rectangle, repeated after the terminal was resized
C15_Witness ==
    /\ CalledAgain
    /\ pc = "returned" /\ op = "customHLayout" /\ ratio = Ratio(<<3, 2, 1, 1>>)
    /\ dim # NULL /\ dim[1] = IntRect(10, 10, 20, 20)
    /\ at # outer[1].at
    /\ Len(boxes) = 4

----------------------------------------------------------------------------
(* C16.  With no bounding rectangle, customHLayout and customVLayout leave *)
(* exactly what they leave for the rectangle with origin (0,0), width      *)
(* COLS - 1 and height LINES - 1.                                          *)
C16_NoRectangleIsScreenLessMargin ==
    pc # "ready" /\ dim = NULL =>
        Outcome = LayoutOf(op, ratio, <<IntRect(0, 0, at[1] - 1, at[2] - 1)>>)

\* a vertical layout of the whole screen after the terminal was resized
C16_Witness ==
    /\ pc = "returned" /\ dim = NULL /\ op = "customVLayout"
    /\ at = <<80, 24>>
    /\ ratio = Ratio(<<1, 2>>)
    /\ Len(boxes) = 2 /\ boxes[1].w = 79 /\ boxes[2].y + boxes[2].h = 23

----------------------------------------------------------------------------
\* a rectangle with x and y, w and h swapped
Swap(r) == IntRect(r.y, r.x, r.h, r.w)

(* C17.  customVLayout is the mirror of customHLayout: for an accepted     *)
(* ratio and a bounding rectangle R, customVLayout(ratio, R) is            *)
(* customHLayout(ratio, R with x/y and w/h swapped) with x/y and w/h       *)
(* swapped back in every rectangle.                                        *)
C17_VerticalMirrorsHorizontal ==
    pc = "returned" /\ op \in VOps /\ dim # NULL =>
        LET mirror == customHLayout(ratio, <<Swap(dim[1])>>, at[2], at[1], UBOfBuild)
        IN  /\ mirror.exc = "none"
            /\ boxes = [i \in 1..Len(mirror.boxes) |-> Swap(mirror.boxes[i])]

\* a vertical layout of a rectangle that is not square and not at (0,0)
C17_Witness ==
    /\ pc = "returned" /\ op = "customVLayout"
    /\ ratio = Ratio(<<1, 2, 1>>)
    /\ dim # NULL /\ dim[1] = IntRect(3, 0, 1, 3)
    /\ Len(boxes) = 3

----------------------------------------------------------------------------
(* C18.  The cross axis is never partitioned: every rectangle of           *)
(* customHLayout has the bounding rectangle's origin-y and height, every   *)
(* rectangle of customVLayout its origin-x and width.                      *)
C18_CrossAxisKept ==
    pc = "returned" =>
        \A i \in 1..Len(boxes) :
            /\ op \in HOps => boxes[i].y = Bounding.y /\ boxes[i].h = Bounding.h
            /\ op \in VOps => boxes[i].x = Bounding.x /\ boxes[i].w = Bounding.w

\* a horizontal layout of a rectangle whose height is not any of its widths
C18_Witness ==
    /\ pc = "returned" /\ op = "HTwoThirdsRight"
    /\ dim # NULL /\ dim[1] = IntRect(3, 3, 2, 3)
    /\ Len(boxes) = 2
    /\ \A i \in 1..2 : boxes[i].w # boxes[i].h

----------------------------------------------------------------------------
\* the sum of the sizes of the rectangles bs along the divided axis
RECURSIVE SumOfSizes(_, _)
SumOfSizes(bs, i) == IF i > Len(bs) THEN 0 ELSE Size(bs[i]) + SumOfSizes(bs, i + 1)

(* C19.  Rounding loss is bounded: for N positive weights and every        *)
(* bounding rectangle, the widths customHLayout emits sum to at least      *)
(* fullWidth - (N - 1).                                                    *)
(* The code contradicts it for a bounding rectangle that is not at x = 0:  *)
(* the clamp compares the absolute cursor with fullWidth and cuts the      *)
(* rectangles short of the far edge.                                       *)
C19_RoundingLossBounded ==
    PositiveCall /\ op \in HOps /\ outer = <<>> =>
        SumOfSizes(boxes, 1) >= Bounding.w - (Len(boxes) - 1)

----------------------------------------------------------------------------
\* the ratio each preset is documented with
TableRatio(name) ==
    IF name \in {"HSplit", "VSplit"} THEN <<"1", ":", "1">>
    ELSE IF name \in {"HTwoThirdsLeft", "VTwoThirdsAbove"} THEN <<"2", ":", "1">>
    ELSE IF name \in {"HTwoThirdsRight", "VTwoThirdsBelow"} THEN <<"1", ":", "2">>
    ELSE <<"1", ":", "1", ":", "1">>

(* C20.  Each preset leaves exactly what the custom layout of its          *)
(* orientation leaves for its table ratio and the same bounding rectangle: *)
(* Split "1:1", TwoThirdsLeft/Above "2:1", TwoThirdsRight/Below "1:2",     *)
(* Thirds "1:1:1".                                                         *)
C20_PresetIsCustomWithTableRatio ==
    pc # "ready" /\ op \in HPresets \cup VPresets =>
        Outcome = LayoutOf(IF op \in HPresets THEN "customHLayout" ELSE "customVLayout",
                           TableRatio(op), dim)

\* a preset whose two rectangles differ, the wider one first
C20_Witness ==
    /\ pc = "returned" /\ op = "HTwoThirdsLeft"
    /\ dim # NULL /\ dim[1] = IntRect(0, 0, 99, 29)
    /\ Len(boxes) = 2 /\ boxes[1].w > boxes[2].w

----------------------------------------------------------------------------
(* Renderables: Text, Glyph, Line, Border. *)

A_NORMAL == "A_NORMAL"

Vec2i(x_, y_) == [x |-> x_, y |-> y_]

\* Rect::origin and Rect::dim
origin(r) == Vec2i(r.x, r.y)
RectDim(r) == Vec2i(r.w, r.h)

\* IntRect(Vec2i origin_, Vec2i dim_)
IntRectAt(origin_, dim_) == IntRect(origin_.x, origin_.y, dim_.x, dim_.y)

\* int / int: the quotient with the fraction dropped, towards zero
DivInt(a, b) ==
    IF (a >= 0) = (b > 0)
    THEN (IF a >= 0 THEN a ELSE -a) \div (IF b > 0 THEN b ELSE -b)
    ELSE -((IF a >= 0 THEN a ELSE -a) \div (IF b > 0 THEN b ELSE -b))

\* Text::Text
Text(text_, pos_) ==
    [pos |-> pos_, attr |-> A_NORMAL, text |-> text_,
     half_length |-> Len(text_) \div 2, centered |-> FALSE, vertical |-> FALSE]

\* Text::setText
setText(t, text_) == [t EXCEPT !.text = text_, !.half_length = Len(text_) \div 2]

\* Text::setCentered
setCentered(t, centered_) == [t EXCEPT !.centered = centered_]

\* Renderable::setPosition
setPosition(obj, pos_) == [obj EXCEPT !.pos = pos_]

\* Glyph::Glyph
Glyph(glyph_, pos_) == [pos |-> pos_, attr |-> A_NORMAL, glyph |-> glyph_]

\* the position of a Line: its constructor hands Renderable the member a
\* before a is initialised, so the position has no determinate value; no
\* operation reads it
Indeterminate == "indeterminate"

\* Line::Line
Line(glyph_, a_, b_) ==
    [pos |-> Indeterminate, attr |-> A_NORMAL, glyph |-> glyph_,
     a |-> a_, b |-> b_, line |-> <<>>]

\* Engine::vecDistance, for two points on one row or one column
vecDistance(a, b) ==
    (IF a.x >= b.x THEN a.x - b.x ELSE b.x - a.x)
        + (IF a.y >= b.y THEN a.y - b.y ELSE b.y - a.y)

Sign(n) == IF n > 0 THEN 1 ELSE IF n < 0 THEN -1 ELSE 0

\* Engine::getPointsOnLine, for two points on one row or one column: the
\* n + 1 points from a to b, n their distance
getPointsOnLine(a, b) ==
    LET n == vecDistance(a, b)
    IN  [k \in 1..(n + 1) |->
            Vec2i(a.x + (k - 1) * Sign(b.x - a.x), a.y + (k - 1) * Sign(b.y - a.y))]

\* Line::constructPoints
constructPoints(l) ==
    LET points == getPointsOnLine(l.a, l.b)
    IN  [l EXCEPT !.line = [k \in 1..Len(points) |-> Glyph(l.glyph, points[k])]]

\* what Line::draw leaves of the line: its points, made on the first draw
LineDrawn(l) == IF Len(l.line) = 0 THEN constructPoints(l) ELSE l

BorderGlyphs ==
    <<"ACS_HLINE", "ACS_HLINE", "ACS_VLINE", "ACS_VLINE",
      "ACS_ULCORNER", "ACS_URCORNER", "ACS_LLCORNER", "ACS_LRCORNER">>

\* CustomBorder::constructPieces
constructPieces(b) ==
    [b EXCEPT
        !.lines = << Line(b.glyphs[1], ul(b.dim), ur(b.dim)),
                     Line(b.glyphs[2], ll(b.dim), lr(b.dim)),
                     Line(b.glyphs[3], ul(b.dim), ll(b.dim)),
                     Line(b.glyphs[4], ur(b.dim), lr(b.dim)) >>,
        !.corners = << Glyph(b.glyphs[5], ul(b.dim)),
                       Glyph(b.glyphs[6], ur(b.dim)),
                       Glyph(b.glyphs[7], ll(b.dim)),
                       Glyph(b.glyphs[8], lr(b.dim)) >>]

\* CustomBorder::CustomBorder
CustomBorder(glyphs_, dim_) ==
    constructPieces([pos |-> origin(dim_), attr |-> A_NORMAL, glyphs |-> glyphs_,
                     dim |-> dim_, lines |-> <<>>, corners |-> <<>>])

\* a faulty variant that keeps the pieces it has
setDimensionsKeepPieces(b, dim_) == [b EXCEPT !.dim = dim_]

\* CustomBorder::setDimensions
setDimensions(b, dim_) == constructPieces([b EXCEPT !.dim = dim_])

\* Border::Border
Border(dim_) == CustomBorder(BorderGlyphs, dim_)

\* what CustomBorder::draw leaves of the border
BorderDrawn(b) == [b EXCEPT !.lines = [k \in 1..Len(b.lines) |-> LineDrawn(b.lines[k])]]

----------------------------------------------------------------------------
(* Panel.  The operations take and yield s = [panels, windows, trace]; i   *)
(* is the index of the Panel in panels.  newwin is taken to succeed.       *)

\* curses' newwin: the window as it was declared
newwin(nlines, ncols, begin_y, begin_x) ==
    [live |-> TRUE, nlines |-> nlines, ncols |-> ncols,
     begin_y |-> begin_y, begin_x |-> begin_x, dels |-> 0]

\* curses' delwin: the window is freed
delwin(w) ==
    [live |-> FALSE, nlines |-> 0, ncols |-> 0, begin_y |-> 0, begin_x |-> 0,
     dels |-> w.dels + 1]

\* Panel::setupWindow
setupWindow(s, i) ==
    LET g == s.panels[i].globalDim
        k == Len(s.windows) + 1
    IN  [s EXCEPT !.windows = Append(@, newwin(Add32(g.h, 1), Add32(g.w, 1), g.y, g.x)),
                  !.panels[i].win = k,
                  !.trace = Append(@, <<"newwin", k>>)]

\* Panel::teardownWindow
teardownWindow(s, i) ==
    LET k == s.panels[i].win
    IN  [s EXCEPT !.windows[k] = delwin(@),
                  !.trace = Append(@, <<"delwin", k>>)]

\* a faulty variant that makes the new window before it deletes
replaceWindowSetupFirst(s, i) == teardownWindow(setupWindow(s, i), i)

\* Panel::replaceWindow
replaceWindow(s, i) == setupWindow(teardownWindow(s, i), i)

\* Panel::Panel: the new Panel is the last of panels
Panel(s, globalDim_, title_) ==
    LET localDim == IntRectAt(Vec2i(0, 0), RectDim(globalDim_))
        title == setCentered(Text(title_, Vec2i(DivInt(localDim.w, 2), 0)), TRUE)
        this == [win |-> 0, title |-> title, border |-> Border(localDim),
                 globalDim |-> globalDim_, localDim |-> localDim]
    IN  setupWindow([s EXCEPT !.panels = Append(@, this)], Len(s.panels) + 1)

\* Panel::~Panel of the last of panels
PanelDelete(s) ==
    LET i == Len(s.panels)
        t == teardownWindow(s, i)
    IN  [t EXCEPT !.panels = SubSeq(@, 1, i - 1)]

\* Panel::draw
PanelDraw(s, i) ==
    [s EXCEPT !.panels[i].border = BorderDrawn(@),
              !.trace = Append(@, <<"draw", i>>)]

\* a faulty variant that replaces the window before it stores the rectangle
resizePanelWindowFirst(s, i, newGlobalDim) ==
    LET t == replaceWindow(s, i)
        localDim == IntRectAt(Vec2i(0, 0), RectDim(newGlobalDim))
    IN  [t EXCEPT !.panels[i].globalDim = newGlobalDim,
                  !.panels[i].localDim = localDim,
                  !.panels[i].title = setPosition(@, Vec2i(DivInt(localDim.w, 2), 0)),
                  !.panels[i].border = setDimensions(@, localDim)]

\* a faulty variant that leaves the title where it was
resizePanelTitleStays(s, i, newGlobalDim) ==
    LET localDim == IntRectAt(Vec2i(0, 0), RectDim(newGlobalDim))
    IN  replaceWindow([s EXCEPT !.panels[i].globalDim = newGlobalDim,
                                !.panels[i].localDim = localDim,
                                !.panels[i].border = setDimensions(@, localDim)], i)

\* Panel::resizePanel
resizePanel(s, i, newGlobalDim) ==
    LET localDim == IntRectAt(Vec2i(0, 0), RectDim(newGlobalDim))
    IN  replaceWindow([s EXCEPT !.panels[i].globalDim = newGlobalDim,
                                !.panels[i].localDim = localDim,
                                !.panels[i].title = setPosition(@, Vec2i(DivInt(localDim.w, 2), 0)),
                                !.panels[i].border = setDimensions(@, localDim)], i)

\* a faulty variant that moves the title to where its text starts
setTitleAndMove(s, i, title_) ==
    LET t == setText(s.panels[i].title, title_)
    IN  [s EXCEPT !.panels[i].title =
            setPosition(t, Vec2i(DivInt(s.panels[i].localDim.w, 2) - t.half_length, 0))]

\* Panel::setTitle
setTitle(s, i, title_) == [s EXCEPT !.panels[i].title = setText(@, title_)]

----------------------------------------------------------------------------
(* One Panel: made, resized, retitled and drawn in any order, then deleted. *)

\* the windows newwin makes in a run, at most
MaxWindows == 3

\* the rectangles a Panel is given: of a layout of the screen, of a
\* sub-layout, and one whose width a clamp has left negative
PanelRects ==
    { IntRect(0, 0, 99, 29), IntRect(0, 0, 24, 29), IntRect(25, 10, 24, 9),
      IntRect(50, 0, 49, 29), IntRect(3, 3, 2, 3), IntRect(4, 0, -1, 2) }

Titles == {"", "Small Panel", "Large Panel"}

Now == [panels |-> panels, windows |-> windows, trace |-> <<>>]

\* the operation has left s
Leaves(s, name, d, t) ==
    /\ panels' = s.panels
    /\ windows' = s.windows
    /\ trace' = s.trace
    /\ old' = [panels |-> panels, windows |-> windows]
    /\ call' = [name |-> name, dim |-> d, title |-> t]
    /\ UNCHANGED <<COLS, LINES, key>>
    /\ UNCHANGED lvars

InitPanel ==
    /\ COLS = 100 /\ LINES = 30
    /\ op = "customHLayout" /\ ratio = <<>> /\ dim = NULL
    /\ exc = NoException /\ boxes = <<>> /\ outer = <<>>
    /\ at = <<COLS, LINES>> /\ build = <<>>
    /\ pc = "no panel"
    /\ NoPanels

\* new Panel(r, t)
NewPanel ==
    /\ pc = "no panel"
    /\ \E r \in PanelRects, t \in Titles :
          Leaves(Panel(Now, r, t), "Panel", <<r>>, t)
    /\ pc' = "live"

\* panel->resizePanel(r)
ResizePanel ==
    /\ pc = "live"
    /\ Len(windows) < MaxWindows
    /\ \E r \in PanelRects : Leaves(resizePanel(Now, 1, r), "resizePanel", <<r>>, "")
    /\ pc' = "live"

\* panel->setTitle(t)
SetTitle ==
    /\ pc = "live"
    /\ \E t \in Titles : Leaves(setTitle(Now, 1, t), "setTitle", <<>>, t)
    /\ pc' = "live"

\* panel->draw(engine)
DrawPanel ==
    /\ pc = "live"
    /\ Leaves(PanelDraw(Now, 1), "draw", <<>>, "")
    /\ pc' = "live"

\* delete panel
DeletePanel ==
    /\ pc = "live"
    /\ Leaves(PanelDelete(Now), "~Panel", <<>>, "")
    /\ pc' = "deleted"

NextPanel ==
    \/ NewPanel
    \/ ResizePanel
    \/ SetTitle
    \/ DrawPanel
    \/ DeletePanel

SpecPanel == InitPanel /\ [][NextPanel]_vars

----------------------------------------------------------------------------
(* What the Panel claims are stated with. *)

\* the Panel of SpecPanel, and as it was before the latest operation
ThePanel == panels[1]
ThePanelBefore == old.panels[1]

\* the latest operation gave the Panel a rectangle
GaveRect == call.name \in {"Panel", "resizePanel"}

\* p is w / 2 with the fraction dropped
IsHalf(p, w) == 2 * p = w \/ (w > 0 /\ 2 * p + 1 = w) \/ (w < 0 /\ 2 * p - 1 = w)

(* C21.  After a Panel's construction and after any sequence of            *)
(* resizePanel calls, globalDim is the most recently supplied rectangle,   *)
(* localDim is (0, 0, globalDim.w, globalDim.h), the title is positioned   *)
(* at (localDim.w / 2, 0), and the border's dimensions are localDim.       *)
C21_RectanglesFollowLatest ==
    pc = "live" =>
        /\ GaveRect => ThePanel.globalDim = call.dim[1]
        /\ ~GaveRect => ThePanel.globalDim = ThePanelBefore.globalDim
        /\ ThePanel.localDim = IntRect(0, 0, ThePanel.globalDim.w, ThePanel.globalDim.h)
        /\ IsHalf(ThePanel.title.pos.x, ThePanel.localDim.w)
        /\ ThePanel.title.pos.y = 0
        /\ ThePanel.border.dim = ThePanel.localDim

\* a Panel resized from an even width to an odd one, off the screen's origin
C21_Witness ==
    /\ pc = "live" /\ call.name = "resizePanel"
    /\ ThePanelBefore.globalDim = IntRect(0, 0, 24, 29)
    /\ ThePanel.globalDim = IntRect(50, 0, 49, 29)
    /\ ThePanel.title.pos = Vec2i(24, 0)

----------------------------------------------------------------------------
\* the windows curses holds that have not been deleted
LiveWindows == {k \in DOMAIN windows : windows[k].live}

(* C22.  Every resizePanel call deletes the Panel's current window and     *)
(* then creates a new one, in that order; between operations a live Panel  *)
(* owns exactly one live window, no window is deleted twice or left        *)
(* undeleted, and after the Panel is destroyed it owns none, for any       *)
(* sequence construct, resizePanel*, destroy.                              *)
C22_DiscardThenRecreate ==
    /\ pc = "live" /\ call.name = "resizePanel" =>
          /\ trace = << <<"delwin", ThePanelBefore.win>>, <<"newwin", ThePanel.win>> >>
          /\ old.windows[ThePanelBefore.win].live
          /\ ThePanel.win \notin DOMAIN old.windows
    /\ pc = "live" => LiveWindows = {ThePanel.win}
    /\ \A k \in DOMAIN windows :
          /\ windows[k].dels <= 1
          /\ windows[k].live <=> windows[k].dels = 0
    /\ pc = "deleted" => panels = <<>> /\ LiveWindows = {}

\* a Panel made, resized twice and destroyed: three windows, each deleted
C22_Witness ==
    /\ pc = "deleted" /\ call.name = "~Panel"
    /\ Len(windows) = 3
    /\ trace = << <<"delwin", 3>> >>

----------------------------------------------------------------------------
\* the window the Panel holds
TheWindow == windows[ThePanel.win]

(* C23.  The declared geometry of a Panel's live window always agrees with *)
(* its stored rectangle: after construction and after every resizePanel    *)
(* the window was created with globalDim.h + 1 rows and globalDim.w + 1    *)
(* columns at screen position (globalDim.y, globalDim.x) for the current   *)
(* globalDim, never for an older rectangle.                                *)
C23_WindowSizedFromCurrentRect ==
    pc = "live" =>
        /\ ThePanel.win \in DOMAIN windows
        /\ TheWindow.live
        /\ TheWindow.nlines = ThePanel.globalDim.h + 1
        /\ TheWindow.ncols = ThePanel.globalDim.w + 1
        /\ TheWindow.begin_y = ThePanel.globalDim.y
        /\ TheWindow.begin_x = ThePanel.globalDim.x

\* a Panel resized to a rectangle that differs in place and in size from the
\* one its window before was made for
C23_Witness ==
    /\ pc = "live" /\ call.name = "resizePanel"
    /\ ThePanelBefore.globalDim = IntRect(0, 0, 99, 29)
    /\ old.windows[ThePanelBefore.win].ncols = 100
    /\ ThePanel.globalDim = IntRect(25, 10, 24, 9)
    /\ TheWindow.ncols = 25 /\ TheWindow.nlines = 10

----------------------------------------------------------------------------
\* what a border piece is drawn from; the position a Line inherits is left
\* out, it is indeterminate and never read
LinePiece(l) == [glyph |-> l.glyph, a |-> l.a, b |-> l.b, line |-> l.line]
Pieces(b) ==
    [lines |-> [k \in 1..Len(b.lines) |-> LinePiece(b.lines[k])], corners |-> b.corners]

\* the state of Panel p, its window among ws
PanelState(p, ws) ==
    [globalDim |-> p.globalDim, localDim |-> p.localDim, title |-> p.title,
     borderDim |-> p.border.dim, pieces |-> Pieces(p.border),
     window |-> [live |-> ws[p.win].live,
                 nlines |-> ws[p.win].nlines, ncols |-> ws[p.win].ncols,
                 begin_y |-> ws[p.win].begin_y, begin_x |-> ws[p.win].begin_x]]

\* the state of a Panel freshly constructed with r and title text t
FreshState(r, t) ==
    LET s == Panel([panels |-> <<>>, windows |-> <<>>, trace |-> <<>>], r, t)
    IN  PanelState(s.panels[1], s.windows)

\* the state resizePanel(r) would leave the Panel in now
ResizedAgain(r) ==
    LET s == resizePanel(Now, 1, r)
    IN  PanelState(s.panels[1], s.windows)

(* C24.  The state of a Panel after any sequence of resizePanel calls      *)
(* ending with rectangle r (globalDim, localDim, title position, border    *)
(* dimensions and pieces, window geometry) equals the state of a Panel     *)
(* freshly constructed with r and the same title text; it does not depend  *)
(* on the earlier rectangles, and resizePanel(r) applied twice gives the   *)
(* same state as applied once.                                             *)
C24_ResizedEqualsFresh ==
    pc = "live" /\ call.name = "resizePanel" =>
        /\ PanelState(ThePanel, windows) = FreshState(call.dim[1], ThePanel.title.text)
        /\ ResizedAgain(call.dim[1]) = PanelState(ThePanel, windows)

\* a Panel whose border had been drawn, resized a second time to a rectangle
\* other than the one it had
C24_Witness ==
    /\ pc = "live" /\ call.name = "resizePanel"
    /\ ThePanel.win = 3
    /\ ThePanelBefore.globalDim # ThePanel.globalDim
    /\ ThePanelBefore.title.text = "Small Panel"
    /\ Len(ThePanelBefore.border.lines[1].line) > 0
    /\ Len(ThePanel.border.lines[1].line) = 0

----------------------------------------------------------------------------
(* C29.  Frame conditions of the Panel operations: resizePanel leaves the  *)
(* title text unchanged, and setTitle changes only the title text, leaving *)
(* globalDim, localDim, the title position, the border dimensions and the  *)
(* window (no delete or create) unchanged.                                 *)
C29_FrameConditions ==
    /\ pc = "live" /\ call.name = "resizePanel" =>
          ThePanel.title.text = ThePanelBefore.title.text
    /\ pc = "live" /\ call.name = "setTitle" =>
          /\ ThePanel.title.text = call.title
          /\ ThePanel.globalDim = ThePanelBefore.globalDim
          /\ ThePanel.localDim = ThePanelBefore.localDim
          /\ ThePanel.title.pos = ThePanelBefore.title.pos
          /\ ThePanel.border.dim = ThePanelBefore.border.dim
          /\ ThePanel.win = ThePanelBefore.win
          /\ windows = old.windows
          /\ trace = <<>>

\* a resized Panel whose title is changed to a text of another length
C29_Witness ==
    /\ pc = "live" /\ call.name = "setTitle"
    /\ ThePanel.win = 2
    /\ ThePanelBefore.title.text = ""
    /\ ThePanel.title.text = "Small Panel"
    /\ ThePanel.title.half_length = 5

----------------------------------------------------------------------------
(* The panel demo: DemoEngine::init, the loop of DemoEngine::run, and the  *)
(* destructor.  pc is "main" before init, then "getch", "switch" and       *)
(* "draw" round the loop, "quit" once getch has returned 'q', "exited"     *)
(* once the engine is deleted.                                             *)

\* the terminal sizes of the demo
DemoSizes == ResizedSizes \cup {<<40, 12>>}

\* what getch returns: a resize, a timeout, a key the loop ignores, 'q'
Keys == {"KEY_RESIZE", "ERR", "a", "q"}

\* Layouts::VThirds(dim), no conversion of which is undefined
VThirdsOf(d, cols, lines) == customVLayout(PresetRatio("VThirds"), d, cols, lines, 0).boxes

\* a faulty variant that gives the second panel the middle rectangle
new_dimsInOrder(outer_, inner) == <<outer_[1], outer_[2], inner[1], inner[2], inner[3]>>

\* new_dims of resizePanels: the rectangle of each of the panels, in order
new_dims(outer_, inner) == <<outer_[1], outer_[3], inner[1], inner[2], inner[3]>>

\* the loop of resizePanels from its i-th pair on
RECURSIVE resizeEach(_, _, _)
resizeEach(s, dims, i) ==
    IF i > Len(dims) THEN s
    ELSE resizeEach(resizePanel([s EXCEPT !.trace = Append(@, <<"resizePanel", i>>)],
                                i, dims[i]),
                    dims, i + 1)

\* DemoEngine::resizePanels
resizePanels(s, cols, lines) ==
    LET outer_ == customHLayout(Ratio(<<1, 1, 2>>), NULL, cols, lines, 0).boxes
        inner == VThirdsOf(<<outer_[2]>>, cols, lines)
    IN  resizeEach(s, new_dims(outer_, inner), 1)

\* the loop of init over inner_dims from its i-th rectangle on
RECURSIVE pushEach(_, _, _)
pushEach(s, dims, i) ==
    IF i > Len(dims) THEN s ELSE pushEach(Panel(s, dims[i], ""), dims, i + 1)

\* DemoEngine::init
DemoEngineInit(s, cols, lines) ==
    LET dims == customHLayout(Ratio(<<1, 1, 2>>), NULL, cols, lines, 0).boxes
        s2 == Panel(Panel(s, dims[1], ""), dims[3], "")
        s4 == setTitle(setTitle(s2, 1, "Small Panel"), 2, "Large Panel")
        s7 == pushEach(s4, VThirdsOf(<<dims[2]>>, cols, lines), 1)
    IN  setTitle(setTitle(setTitle(s7, 3, "Inner Panel 1"), 4, "Inner Panel 2"),
                 5, "Inner Panel 3")

\* the loop of run that draws the panels, from the i-th on
RECURSIVE drawEach(_, _)
drawEach(s, i) == IF i > Len(s.panels) THEN s ELSE drawEach(PanelDraw(s, i), i + 1)

\* the loop of ~DemoEngine from the i-th panel on, the vector gone after it
RECURSIVE deleteEach(_, _)
deleteEach(s, i) ==
    IF i > Len(s.panels) THEN [s EXCEPT !.panels = <<>>]
    ELSE deleteEach(teardownWindow(s, i), i + 1)

\* a step of the demo has left s
DemoLeaves(s, name) ==
    /\ panels' = s.panels
    /\ windows' = s.windows
    /\ trace' = s.trace
    /\ old' = [panels |-> panels, windows |-> windows]
    /\ call' = [name |-> name, dim |-> <<>>, title |-> ""]
    /\ UNCHANGED <<COLS, LINES, key>>
    /\ UNCHANGED lvars

InitDemo ==
    /\ \E t \in DemoSizes : COLS = t[1] /\ LINES = t[2]
    /\ op = "customHLayout" /\ ratio = Ratio(<<1, 1, 2>>) /\ dim = NULL
    /\ exc = NoException /\ boxes = <<>> /\ outer = <<>>
    /\ at = <<COLS, LINES>> /\ build = <<>>
    /\ pc = "main"
    /\ NoPanels

\* engine->init()
DemoInit ==
    /\ pc = "main"
    /\ DemoLeaves(DemoEngineInit(Now, COLS, LINES), "init")
    /\ pc' = "getch"

\* key = getch(): curses has set COLS and LINES when it returns KEY_RESIZE
Getch ==
    /\ pc = "getch"
    /\ \E k \in Keys :
          /\ key' = k
          /\ IF k = "KEY_RESIZE"
             THEN /\ Len(windows) + Len(panels) <= MaxWindows * Len(panels)
                  /\ \E t \in DemoSizes : COLS' = t[1] /\ LINES' = t[2]
             ELSE UNCHANGED <<COLS, LINES>>
          /\ pc' = IF k = "q" THEN "quit" ELSE "switch"
    /\ trace' = <<>>
    /\ old' = [panels |-> panels, windows |-> windows]
    /\ call' = [name |-> "getch", dim |-> <<>>, title |-> ""]
    /\ UNCHANGED <<panels, windows>>
    /\ UNCHANGED lvars

\* switch(key)
Switch ==
    /\ pc = "switch"
    /\ DemoLeaves(IF key = "KEY_RESIZE"
                  THEN resizePanels([Now EXCEPT !.trace = trace], COLS, LINES)
                  ELSE [Now EXCEPT !.trace = trace], "switch")
    /\ pc' = "draw"

\* for(auto& p : panels) draw(p)
DrawPanels ==
    /\ pc = "draw"
    /\ DemoLeaves(drawEach([Now EXCEPT !.trace = trace], 1), "draw")
    /\ pc' = "getch"

\* delete engine
DeleteEngine ==
    /\ pc = "quit"
    /\ DemoLeaves(deleteEach(Now, 1), "~DemoEngine")
    /\ pc' = "exited"

NextDemo ==
    \/ DemoInit
    \/ Getch
    \/ Switch
    \/ DrawPanels
    \/ DeleteEngine

SpecDemo == InitDemo /\ [][NextDemo]_vars

----------------------------------------------------------------------------
\* the rectangles customHLayout("1:1:2") yields for the terminal as it is,
\* and those VThirds yields for the middle one
DemoOuter == customHLayout(<<"1", ":", "1", ":", "2">>, NULL, COLS, LINES, 0).boxes
DemoInner == customVLayout(TableRatio("VThirds"), <<DemoOuter[2]>>, COLS, LINES, 0).boxes

\* the positions in the trace of the events e
Where(e) == {k \in 1..Len(trace) : trace[k] = e}

\* the panels are where the layout of the terminal as it is puts them
PanelsLaidOut ==
    /\ Len(DemoOuter) = 3 /\ Len(DemoInner) = 3
    /\ panels[1].globalDim = DemoOuter[1]
    /\ panels[2].globalDim = DemoOuter[3]
    /\ \A j \in 1..3 : panels[2 + j].globalDim = DemoInner[j]

(* C28.  In the panel demo's input loop every KEY_RESIZE causes each of    *)
(* the five panels to be resized exactly once, to the rectangles that      *)
(* customHLayout("1:1:2") and VThirds of its middle rectangle yield for    *)
(* the terminal size at that moment, with the panel-to-rectangle           *)
(* assignment of init (panels 0 and 1 get outer rectangles 0 and 2, panels *)
(* 2..4 the inner ones), before any panel is drawn in that iteration; the  *)
(* number of panels never changes.                                         *)
C28_ResizeEventResizesEachPanelOnce ==
    /\ pc \in {"getch", "switch", "draw", "quit"} => Len(panels) = 5
    /\ pc \in {"getch", "draw", "quit"} => PanelsLaidOut
    /\ pc = "draw" /\ key = "KEY_RESIZE" =>
          /\ \A i \in 1..5 : Cardinality(Where(<<"resizePanel", i>>)) = 1
          /\ \A i \in 1..5 : Where(<<"draw", i>>) = {}
    /\ pc = "getch" /\ key = "KEY_RESIZE" =>
          /\ \A i \in 1..5 : Cardinality(Where(<<"resizePanel", i>>)) = 1
          /\ \A i, j \in 1..5 :
                \A r \in Where(<<"resizePanel", i>>), d \in Where(<<"draw", j>>) : r < d

\* the terminal has gone from 100 to 80 columns and the panels are resized,
\* none of them drawn yet
C28_Witness ==
    /\ pc = "draw" /\ key = "KEY_RESIZE"
    /\ COLS = 80
    /\ old.panels[2].globalDim.x = 50
    /\ panels[2].globalDim.x = 40
    /\ Len(windows) = 10

----------------------------------------------------------------------------
\* the last rectangle the latest call emitted
LastBox == boxes[Len(boxes)]

----------------------------------------------------------------------------
(* C26.  For every ratio string that passes validation, the sum of the     *)
(* weights that the partitioners divide by is not zero, so no division by  *)
(* zero is reachable through customHLayout or customVLayout.               *)
(* The code contradicts it: validateRatio accepts negative integers, and   *)
(* "1:-1" sums to zero; every proportion is then a float division by zero. *)
C26_BaseNotZero ==
    pc = "returned" => RatioBase(Weights, 1) # 0

----------------------------------------------------------------------------
\* the terms of s, counted from the left, that are not a base-10 integer or
\* are one equal to zero
BadTerms(s) ==
    {k \in 1..NumTerms(s) : ~IsDecimal(KthToken(s, k)) \/ IsZero(KthToken(s, k))}

\* the reason of the first rule s violates in the documented order: no
\* colon, a colon at either end, adjacent colons, then the terms from left
\* to right, each for not being an integer and then for being zero
FirstReason(s) ==
    IF Cuts(s) = {0, Len(s) + 1} THEN MsgNoColon
    ELSE IF 1 \in Cuts(s) \/ Len(s) \in Cuts(s) THEN MsgEndColon
    ELSE IF \E c \in Cuts(s) : c >= 1 /\ c < Len(s) /\ c + 1 \in Cuts(s)
    THEN MsgDoubleColon
    ELSE IF BadTerms(s) = {} THEN ""
    ELSE LET k == CHOOSE b \in BadTerms(s) : \A m \in BadTerms(s) : b <= m
         IN  IF ~IsDecimal(KthToken(s, k)) THEN MsgNotInteger ELSE MsgZero

(* C27.  When a ratio string violates several rules at once, the           *)
(* InvalidRatio reason is that of the first failing check in the fixed     *)
(* order: no colon, then a colon at either end, then adjacent colons, then *)
(* the tokens from left to right (for each token: not an integer, then     *)
(* equal to zero); a later violation never masks an earlier one.           *)
(* It is stated of the calls that raise InvalidRatio; a call that          *)
(* std::stoi leaves with std::out_of_range has no reason (C14).            *)
C27_ReasonOfFirstFailingCheck ==
    CustomCallDone /\ pc = "thrown" /\ exc.exc = "InvalidRatioException" =>
        exc.what = FirstReason(ratio)

\* a ratio with a colon at an end and adjacent colons besides, rejected for
\* the colon at the end
C27_Witness ==
    /\ CustomCallDone /\ pc = "thrown" /\ exc.exc = "InvalidRatioException"
    /\ 1 \in Cuts(ratio)
    /\ \E i \in 2..Len(ratio) : ratio[i] = ":" /\ ratio[i - 1] = ":"
    /\ BadTerms(ratio) # {}
    /\ exc.what = MsgEndColon

====
